---------------------------- MODULE Spec2Model ----------------------------
(***************************************************************************)
(* Model of the copy-service repository:                                   *)
(*   - POST /copy-s3-data/ (routes.py) -> copy_s3_data (service.py)        *)
(*   - aggregate_row_count_s3_folder                                       *)
(*   - write_row_count_to_s3                                               *)
(*   - get_second_string_from_s3_file (dataquality.py)                     *)
(* Strings the code transforms are sequences of one-character strings.     *)
(* Every call into the storage SDK is an external step that either         *)
(* succeeds or raises one of the exceptions in Errors.                     *)
(***************************************************************************)
EXTENDS Integers, Sequences, FiniteSets, TLC

VARIABLES
    prog,        \* which entry point this run exercises
    \* ---- HTTP route + Copy Service
    body,        \* the JSON body of the POST, field by field
    request,     \* the validated S3CopyRequest handed to the handler
    copyPc,      \* position in initiate_copy_s3_data / copy_s3_data
    session,     \* AioSession context: "none" | "open" | "closed"
    client,      \* s3 client context:  "none" | "open" | "closed"
    nClients,    \* clients opened by this invocation
    calls,       \* copy_object calls received by the backend
    copyOutcome, \* outcome of the copy_object call: "none" | "ok" | an error
    exc,         \* exception in flight inside copy_s3_data
    svcLog,      \* records emitted on service.py's logger
    svcRaised,   \* exception copy_s3_data raised to its caller
    routeLog,    \* records emitted on routes.py's logger
    response,    \* HTTP response sent to the client
    \* ---- aggregate_row_count_s3_folder
    listing,     \* what fs.glob returns: one entry per matched parquet file
    aggPc,       \* position in aggregate_row_count_s3_folder
    aggIdx,      \* index of the file the for loop is at
    total_row_count,
    aggResult,   \* what the call gave its caller
    \* ---- get_second_string_from_s3_file
    content,     \* decoded content of the object in the bucket
    extPc,       \* position in get_second_string_from_s3_file
    extClient,   \* boto3 client: "none" | "open" | "closed"
    extNClients, \* clients opened by this invocation
    extRequests, \* get_object requests issued
    extPrinted,  \* lines printed
    extResult,   \* what the call gave its caller
    \* ---- write_row_count_to_s3
    today,       \* the current day, an index into Days
    store,       \* objects held by the storage backend
    wPc,         \* position in write_row_count_to_s3
    wArgs,       \* bucket, prefix, row_count of the call in progress
    file_content,
    file_name,
    wClient,     \* s3 client context: "none" | "open" | "closed"
    wNClients,   \* clients opened by the call in progress
    wExc,        \* exception in flight inside the call
    putLog,      \* put_object requests received by the backend, all calls
    wCalls,      \* calls made so far
    wPutsAtCall, \* Len(putLog) when the call in progress started
    wResult      \* what the last call gave its caller

copyVars == <<body, request, copyPc, session, client, nClients, calls,
              copyOutcome, exc, svcLog, svcRaised, routeLog, response>>

aggVars == <<listing, aggPc, aggIdx, total_row_count, aggResult>>

extVars == <<content, extPc, extClient, extNClients, extRequests, extPrinted,
             extResult>>

writeVars == <<today, store, wPc, wArgs, file_content, file_name, wClient,
               wNClients, wExc, putLog, wCalls, wPutsAtCall, wResult>>

vars == <<prog, copyVars, aggVars, extVars, writeVars>>

notCopy == <<aggVars, extVars, writeVars>>
notAgg == <<copyVars, extVars, writeVars>>
notExt == <<copyVars, aggVars, writeVars>>
notWrite == <<copyVars, aggVars, extVars>>

-----------------------------------------------------------------------------
(* Bounds of the model *)

MaxKeyLen == 3
MaxSrcLen == 1
MaxFiles == 3
MaxContentLen == 5
MaxWriteCalls == 2

-----------------------------------------------------------------------------
(* Strings *)

Str(s) == [kind |-> "str", val |-> s]
MissingField == [kind |-> "missing", val |-> <<>>]
NonStringField == [kind |-> "nonstr", val |-> <<>>]

KeyChars == {"a", "/"}
StringsUpTo(chars, n) == UNION {[1..k -> chars] : k \in 0..n}

BucketNames == {<<>>, <<"s">>, <<"d">>}
SourceKeys == StringsUpTo(KeyChars, MaxSrcLen)
DestKeys == StringsUpTo(KeyChars, MaxKeyLen)

Errors == {"AccessDenied", "ConnectionError"}
NoError == "none"

FieldNames == {"source_bucket", "source_key", "dest_bucket", "dest_key"}

\* str.rstrip('/'): drop every trailing '/'
RECURSIVE RStripSlash(_)
RStripSlashOnce(s) ==
    IF Len(s) > 0 /\ s[Len(s)] = "/" THEN SubSeq(s, 1, Len(s) - 1) ELSE s
RStripSlash(s) ==
    IF Len(s) > 0 /\ s[Len(s)] = "/"
    THEN RStripSlash(SubSeq(s, 1, Len(s) - 1))
    ELSE s

\* dest_prefix.rstrip('/') + '/'
NormalizeStripOne(dest_prefix) == RStripSlashOnce(dest_prefix) \o <<"/">>
NormalizeDestPrefix(dest_prefix) == RStripSlash(dest_prefix) \o <<"/">>

\* {'Bucket': source_bucket, 'Key': f"{source_prefix}/*"}
CopySourceNoWildcard(source_bucket, source_prefix) ==
    [Bucket |-> source_bucket, Key |-> source_prefix]
CopySource(source_bucket, source_prefix) ==
    [Bucket |-> source_bucket, Key |-> source_prefix \o <<"/", "*">>]

-----------------------------------------------------------------------------
(* Request Model: four required fields typed str *)

Bodies ==
    [source_bucket : {MissingField, NonStringField} \cup {Str(s) : s \in BucketNames},
     source_key    : {MissingField, NonStringField} \cup {Str(s) : s \in SourceKeys},
     dest_bucket   : {MissingField, NonStringField} \cup {Str(s) : s \in BucketNames},
     dest_key      : {MissingField, NonStringField} \cup {Str(s) : s \in DestKeys}]

ValidatesOneField(b) == b.source_bucket.kind = "str"
ValidatesPresentOnly(b) == \A f \in FieldNames : b[f].kind # "missing"
ValidatesS3CopyRequest(b) == \A f \in FieldNames : b[f].kind = "str"

NoRequest == [valid |-> FALSE]
S3CopyRequest(b) ==
    [valid |-> TRUE,
     source_bucket |-> b.source_bucket.val, source_key |-> b.source_key.val,
     dest_bucket |-> b.dest_bucket.val, dest_key |-> b.dest_key.val]

NoResponse == [status |-> 0, text |-> "none"]
Response202 == [status |-> 202, text |-> "Copy operation initiated successfully."]
Response422 == [status |-> 422, text |-> "validation error"]
GenericDetail == "An unexpected error occurred. Please try again later."
Response500 == [status |-> 500, text |-> GenericDetail]
Response500Leaky(e) == [status |-> 500, text |-> e]

-----------------------------------------------------------------------------
(* HTTP route and Copy Service *)

CopyStart ==
    /\ request = NoRequest
    /\ copyPc = "validate"
    /\ session = "none"
    /\ client = "none"
    /\ nClients = 0
    /\ calls = <<>>
    /\ copyOutcome = "none"
    /\ exc = NoError
    /\ svcLog = <<>>
    /\ svcRaised = NoError
    /\ routeLog = <<>>
    /\ response = NoResponse

InitCopy == body \in Bodies /\ CopyStart

\* The framework builds the S3CopyRequest argument from the body; the handler
\* body runs only when that succeeds.
RejectBody ==
    /\ prog = "copy" /\ copyPc = "validate"
    /\ ~ValidatesS3CopyRequest(body)
    /\ response' = Response422
    /\ copyPc' = "done"
    /\ UNCHANGED notCopy
    /\ UNCHANGED <<prog, body, request, session, client, nClients, calls,
                   copyOutcome, exc, svcLog, svcRaised, routeLog>>

AcceptBody ==
    /\ prog = "copy" /\ copyPc = "validate"
    /\ ValidatesS3CopyRequest(body)
    /\ request' = S3CopyRequest(body)
    /\ copyPc' = "session_enter"
    /\ UNCHANGED notCopy
    /\ UNCHANGED <<prog, body, session, client, nClients, calls,
                   copyOutcome, exc, svcLog, svcRaised, routeLog, response>>

\* async with AioSession() as session
SessionEnter ==
    /\ prog = "copy" /\ copyPc = "session_enter"
    /\ \/ /\ session' = "open"
          /\ copyPc' = "client_enter"
          /\ exc' = exc
       \/ \E e \in Errors :
          /\ exc' = e
          /\ copyPc' = "except"
          /\ session' = session
    /\ UNCHANGED notCopy
    /\ UNCHANGED <<prog, body, request, client, nClients, calls,
                   copyOutcome, svcLog, svcRaised, routeLog, response>>

\* async with session.create_client('s3') as s3_client
ClientEnter ==
    /\ prog = "copy" /\ copyPc = "client_enter"
    /\ \/ /\ client' = "open"
          /\ nClients' = nClients + 1
          /\ copyPc' = "copy"
          /\ exc' = exc
       \/ \E e \in Errors :
          /\ exc' = e
          /\ copyPc' = "session_exit"
          /\ UNCHANGED <<client, nClients>>
    /\ UNCHANGED notCopy
    /\ UNCHANGED <<prog, body, request, session, calls,
                   copyOutcome, svcLog, svcRaised, routeLog, response>>

CopyCall(source_bucket, source_prefix, dest_bucket, dest_prefix) ==
    [Bucket |-> dest_bucket,
     Key |-> NormalizeDestPrefix(dest_prefix),
     CopySource |-> CopySource(source_bucket, source_prefix)]

InfoRecord(source_bucket, source_prefix, dest_bucket, dest_prefix) ==
    [level |-> "INFO", source_bucket |-> source_bucket,
     source_prefix |-> source_prefix, dest_bucket |-> dest_bucket,
     dest_prefix |-> NormalizeDestPrefix(dest_prefix), error |-> NoError]

ErrorRecord(e) ==
    [level |-> "ERROR", source_bucket |-> <<>>, source_prefix |-> <<>>,
     dest_bucket |-> <<>>, dest_prefix |-> <<>>, error |-> e]

\* lines 24-31: build the arguments, await copy_object, log success
CopyObject ==
    /\ prog = "copy" /\ copyPc = "copy"
    /\ calls' = Append(calls, CopyCall(request.source_bucket, request.source_key,
                                       request.dest_bucket, request.dest_key))
    /\ \/ /\ copyOutcome' = "ok"
          /\ svcLog' = Append(svcLog,
                 InfoRecord(request.source_bucket, request.source_key,
                            request.dest_bucket, request.dest_key))
          /\ exc' = exc
       \/ \E e \in Errors :
          /\ copyOutcome' = e
          /\ exc' = e
          /\ svcLog' = svcLog
    /\ copyPc' = "client_exit"
    /\ UNCHANGED notCopy
    /\ UNCHANGED <<prog, body, request, session, client, nClients,
                   svcRaised, routeLog, response>>

\* leaving the inner async with: the client's __aexit__ runs on every path
ClientExit ==
    /\ prog = "copy" /\ copyPc = "client_exit"
    /\ client' = "closed"
    /\ \/ exc' = exc
       \/ \E e \in Errors : exc' = e
    /\ copyPc' = "session_exit"
    /\ UNCHANGED notCopy
    /\ UNCHANGED <<prog, body, request, session, nClients, calls,
                   copyOutcome, svcLog, svcRaised, routeLog, response>>

\* leaving the outer async with: the session's __aexit__ runs on every path
SessionExit ==
    /\ prog = "copy" /\ copyPc = "session_exit"
    /\ session' = "closed"
    /\ \/ exc' = exc
       \/ \E e \in Errors : exc' = e
    /\ copyPc' = IF exc' = NoError THEN "route_return" ELSE "except"
    /\ UNCHANGED notCopy
    /\ UNCHANGED <<prog, body, request, client, nClients, calls,
                   copyOutcome, svcLog, svcRaised, routeLog, response>>

\* except Exception as e: logger.error(...); raise
ServiceExceptWrapped ==
    /\ prog = "copy" /\ copyPc = "except"
    /\ svcLog' = Append(svcLog, ErrorRecord(exc))
    /\ svcRaised' = "RuntimeError"
    /\ exc' = NoError
    /\ copyPc' = "route_except"
    /\ UNCHANGED notCopy
    /\ UNCHANGED <<prog, body, request, session, client, nClients, calls,
                   copyOutcome, routeLog, response>>

ServiceExcept ==
    /\ prog = "copy" /\ copyPc = "except"
    /\ svcLog' = Append(svcLog, ErrorRecord(exc))
    /\ svcRaised' = exc
    /\ exc' = NoError
    /\ copyPc' = "route_except"
    /\ UNCHANGED notCopy
    /\ UNCHANGED <<prog, body, request, session, client, nClients, calls,
                   copyOutcome, routeLog, response>>

ErrorResponse(e) == Response500

\* except Exception as e: logger.exception(...); raise HTTPException(500, ...)
RouteExcept ==
    /\ prog = "copy" /\ copyPc = "route_except"
    /\ routeLog' = Append(routeLog, [level |-> "ERROR", error |-> svcRaised])
    /\ response' = ErrorResponse(svcRaised)
    /\ copyPc' = "done"
    /\ UNCHANGED notCopy
    /\ UNCHANGED <<prog, body, request, session, client, nClients, calls,
                   copyOutcome, exc, svcLog, svcRaised>>

\* return {"message": "Copy operation initiated successfully."}
RouteReturn ==
    /\ prog = "copy" /\ copyPc = "route_return"
    /\ response' = Response202
    /\ copyPc' = "done"
    /\ UNCHANGED notCopy
    /\ UNCHANGED <<prog, body, request, session, client, nClients, calls,
                   copyOutcome, exc, svcLog, svcRaised, routeLog>>

NextCopy ==
    \/ RejectBody
    \/ AcceptBody
    \/ SessionEnter
    \/ ClientEnter
    \/ CopyObject
    \/ ClientExit
    \/ SessionExit
    \/ ServiceExcept
    \/ RouteExcept
    \/ RouteReturn

-----------------------------------------------------------------------------
(* Row-Count Aggregator *)

RowCounts == {0, 3, 100}

\* One entry per path fs.glob returned: whether fs.open and the metadata read
\* succeed on it, and the num_rows its footer declares.
FileEntries ==
    {[outcome |-> "ok", num_rows |-> n] : n \in RowCounts}
    \cup {[outcome |-> o, num_rows |-> 0] : o \in {"open_fails", "metadata_fails"}}

Listings == UNION {[1..k -> FileEntries] : k \in 0..MaxFiles}

NoResult == [kind |-> "none", value |-> 0, error |-> NoError]
Returned(v) == [kind |-> "returned", value |-> v, error |-> NoError]
Raised(e) == [kind |-> "raised", value |-> 0, error |-> e]

AggStart ==
    /\ aggPc = "start"
    /\ aggIdx = 0
    /\ total_row_count = 0
    /\ aggResult = NoResult

InitAgg == listing \in Listings /\ AggStart

\* fs = s3fs.S3FileSystem(anon=False); total_row_count = 0;
\* parquet_files = fs.glob(...)
ListFiles ==
    /\ prog = "agg" /\ aggPc = "start"
    /\ total_row_count' = 0
    /\ \/ /\ aggIdx' = 1
          /\ aggPc' = "loop"
          /\ aggResult' = aggResult
       \/ \E e \in Errors :
          /\ aggResult' = Raised(e)
          /\ aggPc' = "done"
          /\ aggIdx' = aggIdx
    /\ UNCHANGED listing
    /\ UNCHANGED <<prog, notAgg>>

\* total_row_count += metadata.num_rows
AddRowsOverwrite(total, num_rows) == num_rows
AddRows(total, num_rows) == total + num_rows

\* one iteration of the for loop: open the file, read its metadata, add
ReadFile ==
    /\ prog = "agg" /\ aggPc = "loop"
    /\ aggIdx <= Len(listing)
    /\ IF listing[aggIdx].outcome = "ok"
       THEN /\ total_row_count' = AddRows(total_row_count, listing[aggIdx].num_rows)
            /\ aggIdx' = aggIdx + 1
            /\ UNCHANGED <<aggPc, aggResult>>
       ELSE /\ \E e \in Errors : aggResult' = Raised(e)
            /\ aggPc' = "done"
            /\ UNCHANGED <<aggIdx, total_row_count>>
    /\ UNCHANGED listing
    /\ UNCHANGED <<prog, notAgg>>

\* return total_row_count
ReturnTotal ==
    /\ prog = "agg" /\ aggPc = "loop"
    /\ aggIdx > Len(listing)
    /\ aggResult' = Returned(total_row_count)
    /\ aggPc' = "done"
    /\ UNCHANGED <<listing, aggIdx, total_row_count>>
    /\ UNCHANGED <<prog, notAgg>>

NextAgg ==
    \/ ListFiles
    \/ ReadFile
    \/ ReturnTotal

-----------------------------------------------------------------------------
(* Field Extractor *)

ContentChars == {"a", "b", ",", " ", "\n"}
Whitespace == {" ", "\n"}
Contents == StringsUpTo(ContentChars, MaxContentLen)

\* str.strip(): drop leading and trailing whitespace
RECURSIVE PyLStrip(_)
PyLStrip(s) ==
    IF Len(s) > 0 /\ s[1] \in Whitespace THEN PyLStrip(Tail(s)) ELSE s

RECURSIVE PyRStrip(_)
PyRStrip(s) ==
    IF Len(s) > 0 /\ s[Len(s)] \in Whitespace
    THEN PyRStrip(SubSeq(s, 1, Len(s) - 1))
    ELSE s

PyStrip(s) == PyLStrip(PyRStrip(s))

\* index of the first occurrence of c in s, 0 when there is none
FirstIndex(s, c) ==
    IF \E i \in DOMAIN s : s[i] = c
    THEN CHOOSE i \in DOMAIN s : s[i] = c /\ \A j \in 1..(i - 1) : s[j] # c
    ELSE 0

\* str.split(','): the pieces between commas, at least one
RECURSIVE SplitComma(_)
SplitComma(s) ==
    LET i == FirstIndex(s, ",") IN
    IF i = 0 THEN <<s>>
    ELSE <<SubSeq(s, 1, i - 1)>> \o SplitComma(SubSeq(s, i + 1, Len(s)))

None == [kind |-> "None", val |-> <<>>]
Some(s) == [kind |-> "str", val |-> s]

\* lines 10-19: strip the whole content, split it on commas, take piece [1]
SecondString(decoded) ==
    LET line == PyStrip(decoded)
        strings == SplitComma(line)
    IN IF Len(strings) >= 2 THEN Some(PyStrip(strings[2])) ELSE None

ExtStart ==
    /\ extPc = "start"
    /\ extClient = "none"
    /\ extNClients = 0
    /\ extRequests = 0
    /\ extPrinted = <<>>
    /\ extResult = NoResult

InitExt == content \in Contents /\ ExtStart

\* s3_client = boto3.client('s3'), outside the try
ExtCreateClient ==
    /\ prog = "extract" /\ extPc = "start"
    /\ \/ /\ extClient' = "open"
          /\ extNClients' = extNClients + 1
          /\ extPc' = "get_object"
          /\ extResult' = extResult
       \/ \E e \in Errors :
          /\ extResult' = Raised(e)
          /\ extPc' = "done"
          /\ UNCHANGED <<extClient, extNClients>>
    /\ UNCHANGED <<content, extRequests, extPrinted>>
    /\ UNCHANGED <<prog, notExt>>

\* response = s3_client.get_object(...); on an exception print and return None
ExtGetObject ==
    /\ prog = "extract" /\ extPc = "get_object"
    /\ extRequests' = extRequests + 1
    /\ \/ /\ extPc' = "read"
          /\ UNCHANGED <<extResult, extPrinted>>
       \/ \E e \in Errors :
          /\ extPrinted' = Append(extPrinted, "Error reading file from S3")
          /\ extResult' = Returned(None)
          /\ extPc' = "done"
    /\ UNCHANGED <<content, extClient, extNClients>>
    /\ UNCHANGED <<prog, notExt>>

\* read, decode, strip, split, return the second string or None
ExtParse ==
    /\ prog = "extract" /\ extPc = "read"
    /\ \/ /\ extResult' = Returned(SecondString(content))
          /\ extPrinted' =
                IF SecondString(content) = None
                THEN Append(extPrinted, "Invalid file format")
                ELSE extPrinted
          /\ extPc' = "done"
       \/ \E e \in Errors :
          /\ extPrinted' = Append(extPrinted, "Error reading file from S3")
          /\ extResult' = Returned(None)
          /\ extPc' = "done"
    /\ UNCHANGED <<content, extClient, extNClients, extRequests>>
    /\ UNCHANGED <<prog, notExt>>

NextExt ==
    \/ ExtCreateClient
    \/ ExtGetObject
    \/ ExtParse

-----------------------------------------------------------------------------
(* Summary Writer *)

Days == <<[year |-> 2022, month |-> 4, day |-> 6],
          [year |-> 2023, month |-> 12, day |-> 31]>>

WriteBuckets == {<<"b">>, <<"c">>}
WritePrefixes == {<<>>, <<"p">>}
WriteRowCounts == {100, -7}

DigitChar(d) == <<"0", "1", "2", "3", "4", "5", "6", "7", "8", "9">>[d + 1]

\* decimal digits of a natural number
RECURSIVE Decimal(_)
Decimal(n) ==
    IF n < 10 THEN <<DigitChar(n)>>
    ELSE Decimal(n \div 10) \o <<DigitChar(n % 10)>>

\* f"{row_count}"
IntToStr(n) == IF n < 0 THEN <<"-">> \o Decimal(-n) ELSE Decimal(n)

RECURSIVE ZeroPad(_, _)
ZeroPad(s, width) == IF Len(s) < width THEN ZeroPad(<<"0">> \o s, width) ELSE s

\* strftime("%Y%m%d")
FormatDate(d) ==
    ZeroPad(Decimal(d.year), 4) \o ZeroPad(Decimal(d.month), 2)
        \o ZeroPad(Decimal(d.day), 2)

RowCountTxt == <<"_", "r", "o", "w", "_", "c", "o", "u", "n", "t", ".", "t", "x", "t">>

\* f"{today_date}, {row_count}"
FileContent(today_date, row_count) ==
    today_date \o <<",", " ">> \o IntToStr(row_count)

\* f"{prefix}/{today_date}_row_count.txt"
FileNameUndated(prefix, today_date) == prefix \o <<"/">> \o Tail(RowCountTxt)
FileName(prefix, today_date) == prefix \o <<"/">> \o today_date \o RowCountTxt

\* file_content.encode('utf-8'), for the characters a summary line holds
Utf8Byte(c) ==
    CASE c = "0" -> 48 [] c = "1" -> 49 [] c = "2" -> 50 [] c = "3" -> 51
      [] c = "4" -> 52 [] c = "5" -> 53 [] c = "6" -> 54 [] c = "7" -> 55
      [] c = "8" -> 56 [] c = "9" -> 57 [] c = "," -> 44 [] c = " " -> 32
      [] c = "-" -> 45
Utf8Encode(s) == [i \in DOMAIN s |-> Utf8Byte(s[i])]

NoArgs == [bucket |-> <<>>, prefix |-> <<>>, row_count |-> 0, day |-> 1]

\* put_object on the backend: the object at (Bucket, Key) is replaced
StorePut(objects, r) ==
    {o \in objects : ~(o.Bucket = r.Bucket /\ o.Key = r.Key)} \cup {r}

InitWrite ==
    /\ today = 1
    /\ store = {}
    /\ wPc = "idle"
    /\ wArgs = NoArgs
    /\ file_content = <<>>
    /\ file_name = <<>>
    /\ wClient = "none"
    /\ wNClients = 0
    /\ wExc = NoError
    /\ putLog = <<>>
    /\ wCalls = 0
    /\ wPutsAtCall = 0
    /\ wResult = NoResult

\* the clock moves on to the next day
Tick ==
    /\ prog = "write"
    /\ today < Len(Days)
    /\ today' = today + 1
    /\ UNCHANGED <<store, wPc, wArgs, file_content, file_name, wClient,
                   wNClients, wExc, putLog, wCalls, wPutsAtCall, wResult>>
    /\ UNCHANGED <<prog, notWrite>>

\* lines 228-236: a call starts, reads the date, builds content and name
WriteCall ==
    /\ prog = "write" /\ wPc = "idle"
    /\ wCalls < MaxWriteCalls
    /\ \E b \in WriteBuckets, p \in WritePrefixes, n \in WriteRowCounts :
       LET today_date == FormatDate(Days[today]) IN
       /\ wArgs' = [bucket |-> b, prefix |-> p, row_count |-> n, day |-> today]
       /\ file_content' = FileContent(today_date, n)
       /\ file_name' = FileName(p, today_date)
    /\ wCalls' = wCalls + 1
    /\ wPutsAtCall' = Len(putLog)
    /\ wClient' = "none"
    /\ wNClients' = 0
    /\ wExc' = NoError
    /\ wResult' = NoResult
    /\ wPc' = "client_enter"
    /\ UNCHANGED <<today, store, putLog>>
    /\ UNCHANGED <<prog, notWrite>>

\* async with aiobotocore.get_session().create_client("s3") as s3_client
WriteClientEnter ==
    /\ prog = "write" /\ wPc = "client_enter"
    /\ \/ /\ wClient' = "open"
          /\ wNClients' = wNClients + 1
          /\ wPc' = "put_object"
          /\ wResult' = wResult
       \/ \E e \in Errors :
          /\ wResult' = Raised(e)
          /\ wPc' = "idle"
          /\ UNCHANGED <<wClient, wNClients>>
    /\ UNCHANGED <<today, store, wArgs, file_content, file_name, wExc,
                   putLog, wCalls, wPutsAtCall>>
    /\ UNCHANGED <<prog, notWrite>>

PutRequest(bucket, key, encoded_content) ==
    [Bucket |-> bucket, Key |-> key, Body |-> encoded_content]

\* lines 241-244: encode and await put_object; a put that raises may or may
\* not have been applied by the backend
WritePutObject ==
    /\ prog = "write" /\ wPc = "put_object"
    /\ LET r == PutRequest(wArgs.bucket, file_name, Utf8Encode(file_content)) IN
       \/ /\ putLog' = Append(putLog, [request |-> r, outcome |-> "ok", args |-> wArgs])
          /\ store' = StorePut(store, r)
          /\ wExc' = wExc
       \/ \E e \in Errors :
          /\ putLog' = Append(putLog, [request |-> r, outcome |-> e, args |-> wArgs])
          /\ store' \in {store, StorePut(store, r)}
          /\ wExc' = e
    /\ wPc' = "client_exit"
    /\ UNCHANGED <<today, wArgs, file_content, file_name, wClient, wNClients,
                   wCalls, wPutsAtCall, wResult>>
    /\ UNCHANGED <<prog, notWrite>>

\* leaving the async with: the client's __aexit__ runs on every path, then
\* the call returns None or lets the exception through
WriteClientExitLeak ==
    /\ prog = "write" /\ wPc = "client_exit"
    /\ wClient' = wClient
    /\ wResult' = IF wExc = NoError THEN Returned(0) ELSE Raised(wExc)
    /\ wExc' = NoError
    /\ wPc' = "idle"
    /\ UNCHANGED <<today, store, wArgs, file_content, file_name, wNClients,
                   putLog, wCalls, wPutsAtCall>>
    /\ UNCHANGED <<prog, notWrite>>

WriteClientExit ==
    /\ prog = "write" /\ wPc = "client_exit"
    /\ wClient' = "closed"
    /\ \/ wResult' = IF wExc = NoError THEN Returned(0) ELSE Raised(wExc)
       \/ \E e \in Errors : wResult' = Raised(e)
    /\ wExc' = NoError
    /\ wPc' = "idle"
    /\ UNCHANGED <<today, store, wArgs, file_content, file_name, wNClients,
                   putLog, wCalls, wPutsAtCall>>
    /\ UNCHANGED <<prog, notWrite>>

NextWrite ==
    \/ Tick
    \/ WriteCall
    \/ WriteClientEnter
    \/ WritePutObject
    \/ WriteClientExit

-----------------------------------------------------------------------------
(* Properties of the HTTP route and the Copy Service *)

CopyDone == prog = "copy" /\ copyPc = "done"
Accepted == request.valid
HasInfo == \E i \in DOMAIN svcLog : svcLog[i].level = "INFO"
ErrorEntries == {i \in DOMAIN svcLog : svcLog[i].level = "ERROR"}
StructurallyInvalid(b) == \E f \in FieldNames : b[f].kind \in {"missing", "nonstr"}

\* k is d without its trailing '/' characters, followed by one '/'
IsStrippedPlusSlash(k, d) ==
    /\ Len(k) >= 1
    /\ k[Len(k)] = "/"
    /\ LET p == SubSeq(k, 1, Len(k) - 1) IN
       /\ Len(p) > 0 => p[Len(p)] # "/"
       /\ Len(p) <= Len(d)
       /\ SubSeq(d, 1, Len(p)) = p
       /\ \A i \in (Len(p) + 1)..Len(d) : d[i] = "/"

BackendGotTheCopy ==
    /\ Len(calls) = 1
    /\ calls[1].Bucket = request.dest_bucket
    /\ IsStrippedPlusSlash(calls[1].Key, request.dest_key)
    /\ calls[1].CopySource.Bucket = request.source_bucket
    /\ calls[1].CopySource.Key = request.source_key \o <<"/", "*">>

\* C1 (as claimed): whenever the backend copy call succeeds, the response is
\* 202 with the acknowledgement body and the backend received the copy
\* request with Bucket = dest_bucket, Key = dest_key stripped of trailing '/'
\* plus one '/', CopySource = {Bucket: source_bucket, Key: source_key + "/*"}.
C1_AsClaimed ==
    (CopyDone /\ Accepted /\ copyOutcome = "ok") =>
        (response = Response202 /\ BackendGotTheCopy)

\* C1 (amended): whenever the backend copy call succeeds and the client and
\* the session are then released without error, the response is 202 with the
\* acknowledgement body, and 500 when that release raises; whenever the copy
\* call succeeds the backend has received exactly the copy request described
\* above.
C1_Copy202 ==
    (CopyDone /\ Accepted /\ copyOutcome = "ok") =>
        /\ BackendGotTheCopy
        /\ svcRaised = NoError => response = Response202
        /\ svcRaised # NoError => response = Response500

C1_Witness ==
    /\ CopyDone /\ copyOutcome = "ok" /\ svcRaised = NoError
    /\ response = Response202
    /\ request.dest_key = <<"a", "/", "/">>
    /\ calls[1].Key = <<"a", "/">>

\* C2: whenever the Copy Service raises (session or client creation, the
\* copy call, or the release of client or session failed), the response is
\* exactly 500 with the fixed detail, whatever the error was: the error's
\* content is not in the response and the 202 acknowledgement is not sent.
C2_Generic500 ==
    (CopyDone /\ Accepted /\ svcRaised # NoError) =>
        /\ response.status = 500
        /\ response.text = "An unexpected error occurred. Please try again later."
        /\ response.text \notin Errors
        /\ response # Response202

C2_Witness ==
    /\ CopyDone /\ copyOutcome = "ok" /\ svcRaised = "ConnectionError"
    /\ response.status = 500

\* C3: a structurally invalid body (a field missing or not a string) is
\* answered with 422, and at no point of its handling is the Copy Service
\* entered, a session or client opened, or a copy call issued.
C3_InvalidNeverReachesService ==
    (prog = "copy" /\ StructurallyInvalid(body)) =>
        /\ copyPc \in {"validate", "done"}
        /\ ~request.valid
        /\ session = "none" /\ client = "none" /\ nClients = 0
        /\ calls = <<>> /\ svcLog = <<>>
        /\ copyPc = "done" => response.status = 422

C3_Witness ==
    /\ CopyDone /\ response.status = 422
    /\ body.source_bucket.kind = "str" /\ body.dest_key.kind = "missing"
    /\ body.source_key.kind = "nonstr"

\* C4 (as claimed): whenever an invocation of the Copy Service ends with an
\* error, the error is logged at error severity, no success (info) entry is
\* logged, the same error is re-raised, and at most one copy call was issued.
C4_AsClaimed ==
    (CopyDone /\ svcRaised # NoError) =>
        /\ Cardinality(ErrorEntries) = 1
        /\ \A i \in ErrorEntries : svcLog[i].error = svcRaised
        /\ copyOutcome \in Errors => svcRaised = copyOutcome
        /\ ~HasInfo
        /\ Len(calls) <= 1

\* C4 (amended): whenever an invocation of the Copy Service ends with an
\* error, the error that reached its handler is logged once at error
\* severity as the last entry and is re-raised unchanged, and at most one
\* copy call was issued; a success (info) entry was logged exactly when the
\* copy call itself had succeeded (the error then came from releasing the
\* client or session).
C4_LogAndReraise ==
    (CopyDone /\ svcRaised # NoError) =>
        /\ ErrorEntries = {Len(svcLog)}
        /\ svcLog[Len(svcLog)].error = svcRaised
        /\ Len(calls) <= 1
        /\ HasInfo <=> copyOutcome = "ok"

C4_Witness ==
    /\ CopyDone /\ copyOutcome = "ConnectionError"
    /\ svcRaised = "ConnectionError"
    /\ svcLog = <<ErrorRecord("ConnectionError")>>
    /\ Len(calls) = 1

\* C5: the destination key sent to the backend always ends in exactly one
\* '/', whatever number of trailing '/' the supplied key had (the empty key
\* included), and normalizing it again leaves it unchanged.
C5_NormalizeOneSlash ==
    \A i \in DOMAIN calls :
        LET k == calls[i].Key IN
        /\ Len(k) >= 1
        /\ k[Len(k)] = "/"
        /\ Len(k) >= 2 => k[Len(k) - 1] # "/"
        /\ NormalizeDestPrefix(k) = k

C5_Witness ==
    /\ prog = "copy" /\ Len(calls) = 1
    /\ request.dest_key = <<"/", "/">>
    /\ calls[1].Key = <<"/">>

\* C7 (as claimed): every accepted request has four non-empty string fields,
\* and no copy call is issued with an empty bucket or key.
C7_AsClaimed ==
    (prog = "copy" /\ Accepted) =>
        /\ \A f \in FieldNames : body[f].kind = "str" /\ request[f] # <<>>
        /\ \A i \in DOMAIN calls :
              /\ calls[i].Bucket # <<>>
              /\ calls[i].CopySource.Bucket # <<>>

\* C7 (amended): every accepted request has all four fields present as
\* strings, and the Copy Service receives exactly those strings; emptiness
\* is not checked, so an empty bucket or key is accepted and passed on.
C7_FieldsPresentAsStrings ==
    (prog = "copy" /\ Accepted) =>
        /\ \A f \in FieldNames : body[f].kind = "str" /\ request[f] = body[f].val
        /\ \A i \in DOMAIN calls :
              /\ calls[i].Bucket = body.dest_bucket.val
              /\ calls[i].CopySource.Bucket = body.source_bucket.val

C7_Witness ==
    /\ CopyDone /\ Accepted /\ Len(calls) = 1
    /\ body.source_bucket = Str(<<>>) /\ body.source_key = Str(<<>>)
    /\ calls[1].CopySource.Bucket = <<>>
    /\ response = Response202

-----------------------------------------------------------------------------
(* Properties of the Row-Count Aggregator *)

AggDone == prog = "agg" /\ aggPc = "done"
AllReadable(l) == \A i \in DOMAIN l : l[i].outcome = "ok"
FilesDeclaring(l, n) == {i \in DOMAIN l : l[i].outcome = "ok" /\ l[i].num_rows = n}

\* the sum of the declared row counts, taken value by value: it depends on
\* how many files declare each count and not on their order
RECURSIVE SumByValue(_, _)
SumByValue(l, values) ==
    IF values = {} THEN 0
    ELSE LET n == CHOOSE x \in values : TRUE
         IN n * Cardinality(FilesDeclaring(l, n)) + SumByValue(l, values \ {n})

\* C8: once the files are listed, the aggregation returns 0 for an empty
\* listing and the sum of the declared row counts otherwise, whatever the
\* order of the listing; if opening or reading any file fails the call
\* raises and returns no total.
C8_AggregateSum ==
    AggDone =>
        /\ aggResult.kind \in {"returned", "raised"}
        /\ aggResult.kind = "returned" =>
              /\ AllReadable(listing)
              /\ aggResult.value = SumByValue(listing, RowCounts)
              /\ listing = <<>> => aggResult.value = 0
        /\ ~AllReadable(listing) => aggResult.kind = "raised"
        /\ (aggResult.kind = "raised" /\ AllReadable(listing)) => aggIdx = 0

C8_Witness ==
    /\ AggDone
    /\ Len(listing) = 3
    /\ listing[1].num_rows = 100 /\ listing[2].num_rows = 3
    /\ listing[3].num_rows = 100
    /\ aggResult = Returned(203)

-----------------------------------------------------------------------------
(* Properties of the Field Extractor *)

ExtDone == prog = "extract" /\ extPc = "done"
Downloaded ==
    /\ extRequests = 1
    /\ \A i \in DOMAIN extPrinted : extPrinted[i] # "Error reading file from S3"

FirstLine(s) ==
    LET i == FirstIndex(s, "\n") IN IF i = 0 THEN s ELSE SubSeq(s, 1, i - 1)

SecondFieldOfFirstLine(decoded) ==
    LET fields == SplitComma(FirstLine(PyStrip(decoded)))
    IN IF Len(fields) >= 2 THEN Some(PyStrip(fields[2])) ELSE None

\* C9: for every downloaded object the result is the trimmed second
\* comma-separated field of the first line of the content, or absent when
\* the first line has fewer than two fields; later lines do not matter.
C9_AsClaimed ==
    (ExtDone /\ Downloaded) =>
        extResult = Returned(SecondFieldOfFirstLine(content))

-----------------------------------------------------------------------------
(* Properties of the Summary Writer *)

WriteReturned == prog = "write" /\ wPc = "idle" /\ wCalls > 0
PutsOfCall == Len(putLog) - wPutsAtCall
DigitValue(c) == CHOOSE d \in 0..9 : DigitChar(d) = c
Digits == {DigitChar(d) : d \in 0..9}

\* s is the 8-digit YYYYMMDD form of the day d
IsYYYYMMDD(s, d) ==
    /\ Len(s) = 8
    /\ \A i \in 1..8 : s[i] \in Digits
    /\ 1000 * DigitValue(s[1]) + 100 * DigitValue(s[2])
         + 10 * DigitValue(s[3]) + DigitValue(s[4]) = d.year
    /\ 10 * DigitValue(s[5]) + DigitValue(s[6]) = d.month
    /\ 10 * DigitValue(s[7]) + DigitValue(s[8]) = d.day

\* the put request r is the one the call with arguments a has to issue
IsSummaryPut(r, a) ==
    LET date == SubSeq(r.Key, Len(a.prefix) + 2, Len(a.prefix) + 9) IN
        /\ Len(r.Key) = Len(a.prefix) + 9 + Len(RowCountTxt)
        /\ IsYYYYMMDD(date, Days[a.day])
        /\ r.Bucket = a.bucket
        /\ r.Key = a.prefix \o <<"/">> \o date \o RowCountTxt
        /\ r.Body = Utf8Encode(date \o <<",", " ">> \o IntToStr(a.row_count))

ObjectAt(bucket, key) == {o \in store : o.Bucket = bucket /\ o.Key = key}

-----------------------------------------------------------------------------
(* Client lifecycle of the three units of work *)

\* C6 (as claimed), for the units of work that got to open a client: by the
\* time it has returned, normally or with an exception, the unit of work has
\* opened exactly one client, issued exactly one backend request and
\* released the client; no client is still open.
C6_AsClaimed ==
    /\ (CopyDone /\ nClients > 0) =>
          nClients = 1 /\ Len(calls) = 1 /\ client = "closed"
    /\ (WriteReturned /\ wNClients > 0) =>
          wNClients = 1 /\ PutsOfCall = 1 /\ wClient = "closed"
    /\ (ExtDone /\ extNClients > 0) =>
          extNClients = 1 /\ extRequests = 1 /\ extClient = "closed"

\* C6 (amended): every unit of work opens at most one client and issues at
\* most one backend request, exactly one request when its client was opened.
\* The Copy Service and the Summary Writer have run the release of the
\* client they opened (and the Copy Service that of its session) on every
\* exit path, normal or exceptional, by the time they return; the Field
\* Extractor never releases its client, which is still open when it returns.
C6_ClientLifecycle ==
    /\ (CopyDone /\ Accepted) =>
          /\ nClients <= 1 /\ Len(calls) = nClients
          /\ client = (IF nClients = 1 THEN "closed" ELSE "none")
          /\ session # "open"
    /\ WriteReturned =>
          /\ wNClients <= 1 /\ PutsOfCall = wNClients
          /\ wClient = (IF wNClients = 1 THEN "closed" ELSE "none")
    /\ ExtDone =>
          /\ extNClients <= 1 /\ extRequests = extNClients
          /\ extClient = (IF extNClients = 1 THEN "open" ELSE "none")

C6_Witness ==
    /\ WriteReturned /\ wResult.kind = "raised"
    /\ PutsOfCall = 1 /\ putLog[Len(putLog)].outcome \in Errors
    /\ wNClients = 1 /\ wClient = "closed"

-----------------------------------------------------------------------------
(* Specifications *)

\* the state of an entry point that is not exercised in a run
IdleCopy == body = [f \in FieldNames |-> MissingField] /\ CopyStart
IdleAgg == listing = <<>> /\ AggStart
IdleExt == content = <<>> /\ ExtStart
IdleWrite == InitWrite

InitCopyRun == prog = "copy" /\ InitCopy /\ IdleAgg /\ IdleExt /\ IdleWrite
InitAggRun == prog = "agg" /\ IdleCopy /\ InitAgg /\ IdleExt /\ IdleWrite
InitExtRun == prog = "extract" /\ IdleCopy /\ IdleAgg /\ InitExt /\ IdleWrite
InitWriteRun == prog = "write" /\ IdleCopy /\ IdleAgg /\ IdleExt /\ InitWrite

Init ==
    \/ InitCopyRun
    \/ InitAggRun
    \/ InitExtRun
    \/ InitWriteRun

Next ==
    \/ NextCopy
    \/ NextAgg
    \/ NextExt
    \/ NextWrite

Spec == Init /\ [][Next]_vars

SpecCopy == InitCopyRun /\ [][NextCopy]_vars
SpecAgg == InitAggRun /\ [][NextAgg]_vars
SpecExt == InitExtRun /\ [][NextExt]_vars
SpecWrite == InitWriteRun /\ [][NextWrite]_vars

=============================================================================
